---- MODULE Spec2Model ----
(***************************************************************************)
(* Selective-Repeat sender (A) and receiver (B) of sr.c, run over the      *)
(* lossy, corrupting, order-preserving channel and the single-shot timer   *)
(* that the network emulator provides.  One action per handler call; a     *)
(* handler runs to completion before the next event is processed.          *)
(***************************************************************************)
EXTENDS Integers, Sequences, FiniteSets, TLC

(* ---------------------------- constants of sr.c ------------------------ *)
WINDOWSIZE == 6
SEQSPACE == 12
NOTINUSE == -1
RTT == 16
PAYLOADLEN == 20

(* ---------------------------- bounds of the model ---------------------- *)
MaxMsgs == 7         \* messages layer 5 submits and A accepts in one run
MaxChan == 2         \* packets one direction of the channel holds
MaxResent == 2       \* packets_resent
MaxWindowFull == 1   \* window_full
MaxFaults == 2       \* packets the channel loses or corrupts
StartAt == 7         \* messages already exchanged where SpecWrap starts
MaxOverMsgs == 2     \* messages A accepts in a run of SpecOver
MaxOverResent == 12  \* packets sent again in a run of SpecOver

VARIABLES
  buffer, acked, base, nextseqnum, timer_running,
  window_full, new_ACKs, packets_resent,
  recv_buffer, received, expectedseqnum, packets_received,
  chanAB, chanBA, timer, faults,
  accepted, delivered, nslides, ackSeen, last,
  origin, seqspace, lim, probe

senderVars == <<buffer, acked, base, nextseqnum, timer_running>>
counterVars == <<window_full, new_ACKs, packets_resent, packets_received>>
receiverVars == <<recv_buffer, received, expectedseqnum>>
envVars == <<chanAB, chanBA, timer>>
ghostVars == <<accepted, delivered, nslides, ackSeen, last>>

\* What is fixed for one run: the number of messages exchanged before the
\* run starts, the value SEQSPACE is built with, and the bounds of the run.
\* probe is a packet under test and what was done to it, in the runs that
\* exercise the checksum functions alone.
runVars == <<origin, seqspace, lim, probe>>

vars ==
  <<senderVars, counterVars, receiverVars, envVars, faults, ghostVars,
    runVars>>

Seqs == 0 .. (seqspace - 1)

\* the bounds of a run
Limits(msgs, chan, resent, full, nfaults) ==
  [msgs |-> msgs, chan |-> chan, resent |-> resent, full |-> full,
   faults |-> nfaults]

(* ---------------------------- packets ---------------------------------- *)
\* A payload is char[20].  Every payload of this system is twenty copies of
\* one byte, except that the channel may overwrite one of them: it is kept
\* as the fill byte, plus the index and value of the one byte that may
\* differ.  Byte(payload, i) is payload[i].
Fill(c) == [fill |-> c, at |-> 0, byte |-> c]

Byte(payload, i) == IF i = payload.at THEN payload.byte ELSE payload.fill

\* a struct in static storage: every field zero
ZeroPkt == [seqnum |-> 0, acknum |-> 0, payload |-> Fill(0), checksum |-> 0]

\* the k-th message of layer 5: twenty copies of one letter, from 'a' on
Message(k) == Fill(97 + (k % 26))

\* for (i = 0; i < 20; i++) checksum += (int)(packet.payload[i]);
RECURSIVE SumPayload(_, _)
SumPayload(payload, n) ==
  IF n = 0 THEN 0 ELSE SumPayload(payload, n - 1) + Byte(payload, n - 1)

\* the ends of the range of an int
INT_MAX == 2147483647
INT_MIN == (-INT_MAX) - 1

\* a + b for two int: 32 bits, two's complement, the sum wraps around
Add32(a, b) ==
  IF a > 0 /\ b > 0 /\ a > INT_MAX - b
  THEN (a - INT_MAX - 1) + (b - INT_MAX - 1)
  ELSE IF a < 0 /\ b < 0 /\ a < INT_MIN - b
       THEN (a + INT_MAX + 1) + (b + INT_MAX + 1)
       ELSE a + b

\* mutant of ComputeChecksum: the header fields are left out of the sum
ComputeChecksum_PayloadOnly(packet) ==
  SumPayload(packet.payload, PAYLOADLEN)

ComputeChecksum(packet) ==
  Add32(Add32(packet.seqnum, packet.acknum),
        SumPayload(packet.payload, PAYLOADLEN))

IsCorrupted(packet) == packet.checksum # ComputeChecksum(packet)

\* what the channel may turn a packet into: a header field or the start of
\* the payload is overwritten, the checksum field is left as it was
Corruptions(packet) ==
  { [packet EXCEPT !.payload = [fill |-> @.fill, at |-> 0, byte |-> 122]],
    [packet EXCEPT !.seqnum = 999999],
    [packet EXCEPT !.acknum = 999999] } \ {packet}

(* ---------------------------- environment ------------------------------ *)
Call(name, arg) == [call |-> name, arg |-> arg]

\* The record of the latest handler call: the handler; whether the checksum
\* field of its packet was the checksum of the packet; whether the handler
\* had been given that packet before; the sequence (or acknowledgment)
\* number it was about; and the calls it made on the emulator, in order.
Did(op, ok, again, seq, ev) ==
  [op |-> op, ok |-> ok, again |-> again, seq |-> seq, ev |-> ev]

Intact(packet) ==
  packet.checksum =
    packet.seqnum + packet.acknum + packet.payload.byte
      + (PAYLOADLEN - 1) * packet.payload.fill

\* the channel keeps at most lim.chan packets in flight; one more is lost
tolayer3(chan, packet) ==
  IF Len(chan) < lim.chan THEN Append(chan, packet) ELSE chan

RECURSIVE tolayer3All(_, _)
tolayer3All(chan, packets) ==
  IF packets = <<>> THEN chan
  ELSE tolayer3All(tolayer3(chan, Head(packets)), Tail(packets))

\* the emulator's timer: arming an armed timer, or stopping one that is not
\* running, is refused with a warning (recorded in fault)
starttimer(t) == [armed |-> TRUE, fault |-> t.fault \/ t.armed]
stoptimer(t) == [armed |-> FALSE, fault |-> t.fault \/ ~t.armed]

Sent(ev) == SelectSeq(ev, LAMBDA e : e.call = "tolayer3")
ToApp(ev) == SelectSeq(ev, LAMBDA e : e.call = "tolayer5")

RECURSIVE Args(_)
Args(ev) == IF ev = <<>> THEN <<>> ELSE <<Head(ev).arg>> \o Args(Tail(ev))

(* ---------------------------- sender ----------------------------------- *)
InFlight(b, n) == (n + seqspace - b) % seqspace

\* mutant of WindowNotFull: the test is off by one
WindowNotFull_OffByOne(b, n) == InFlight(b, n) <= WINDOWSIZE

WindowNotFull(b, n) == InFlight(b, n) < WINDOWSIZE

\* mutant of MustArm: the test is made on the sequence number after the one
\* just sent
MustArm_AfterAdvance(b, n, running) == b = (n + 1) % seqspace /\ ~running

\* if (base == nextseqnum && !timer_running)
MustArm(b, n, running) == b = n /\ ~running

MakePkt(seq, message) ==
  LET sendpkt == [seqnum |-> seq, acknum |-> NOTINUSE, payload |-> message,
                  checksum |-> 0]
  IN  [sendpkt EXCEPT !.checksum = ComputeChecksum(sendpkt)]

A_output(message) ==
  IF WindowNotFull(base, nextseqnum)
  THEN LET sendpkt == MakePkt(nextseqnum, message)
           arm == MustArm(base, nextseqnum, timer_running)
       IN  /\ Len(accepted) < origin + lim.msgs
           /\ buffer' = [buffer EXCEPT ![nextseqnum] = sendpkt]
           /\ acked' = [acked EXCEPT ![nextseqnum] = FALSE]
           /\ chanAB' = tolayer3(chanAB, sendpkt)
           /\ timer' = IF arm THEN starttimer(timer) ELSE timer
           /\ timer_running' = IF arm THEN TRUE ELSE timer_running
           /\ nextseqnum' = (nextseqnum + 1) % seqspace
           /\ accepted' = Append(accepted, message)
           /\ ackSeen' = [ackSeen EXCEPT ![nextseqnum] = FALSE]
           /\ last' = Did("A_output", TRUE, FALSE, nextseqnum,
                           <<Call("tolayer3", sendpkt)>> \o
                           (IF arm THEN <<Call("starttimer", RTT)>> ELSE <<>>))
           /\ UNCHANGED <<base, counterVars, receiverVars, chanBA, delivered,
                          nslides>>
  ELSE /\ window_full < lim.full
       /\ window_full' = window_full + 1
       /\ last' = Did("A_output", TRUE, FALSE, nextseqnum, <<>>)
       /\ UNCHANGED <<senderVars, new_ACKs, packets_resent, packets_received,
                      receiverVars, envVars, accepted, delivered, nslides,
                      ackSeen>>

\* while (acked[base]) { acked[base] = false; base = (base + 1) % SEQSPACE; }
RECURSIVE Slide(_, _, _)
Slide(a, b, n) ==
  IF a[b]
  THEN Slide([a EXCEPT ![b] = FALSE], (b + 1) % seqspace, n + 1)
  ELSE [acked |-> a, base |-> b, n |-> n]

\* mutant of AckTimerCalls: the timer is armed again without being stopped
AckTimerCalls_NoStop(b, n, running) ==
  IF b = n
  THEN IF running THEN <<Call("stoptimer", 0)>> ELSE <<>>
  ELSE <<Call("starttimer", RTT)>>

\* mutant of AckTimerCalls: the timer is armed again whether or not a packet
\* is left in flight
AckTimerCalls_Rearm(b, n, running) ==
  (IF running THEN <<Call("stoptimer", 0)>> ELSE <<>>)
    \o <<Call("starttimer", RTT)>>

\* the timer calls after the window has slid
AckTimerCalls(b, n, running) ==
  IF b = n
  THEN IF running THEN <<Call("stoptimer", 0)>> ELSE <<>>
  ELSE (IF running THEN <<Call("stoptimer", 0)>> ELSE <<>>)
         \o <<Call("starttimer", RTT)>>

RECURSIVE ApplyTimerCalls(_, _)
ApplyTimerCalls(t, calls) ==
  IF calls = <<>> THEN t
  ELSE ApplyTimerCalls(IF Head(calls).call = "starttimer" THEN starttimer(t)
                       ELSE stoptimer(t), Tail(calls))

\* A_input, the packet having passed the checksum test
A_input_ack(packet) ==
  LET acknum == packet.acknum
      isnew == ~acked[acknum]
      s == Slide([acked EXCEPT ![acknum] = TRUE], base, 0)
      calls == AckTimerCalls(s.base, nextseqnum, timer_running)
  IN  /\ IF isnew
         THEN /\ acked' = s.acked
              /\ base' = s.base
              /\ nslides' = nslides + s.n
              /\ new_ACKs' = new_ACKs + 1
              /\ timer' = ApplyTimerCalls(timer, calls)
              /\ timer_running' = (s.base # nextseqnum)
         ELSE UNCHANGED <<acked, base, nslides, new_ACKs, timer, timer_running>>
      /\ ackSeen' = [ackSeen EXCEPT ![acknum] = TRUE]
      /\ last' = Did("A_input", Intact(packet), ackSeen[acknum], acknum,
                      IF isnew THEN calls ELSE <<>>)
      /\ UNCHANGED <<buffer, nextseqnum, window_full, packets_resent,
                     packets_received, receiverVars, chanAB, accepted,
                     delivered>>

\* A_input, the packet having failed the checksum test
A_input_discard(packet) ==
  /\ last' = Did("A_input", Intact(packet), FALSE, NOTINUSE, <<>>)
  /\ UNCHANGED <<senderVars, counterVars, receiverVars, chanAB, timer,
                 accepted, delivered, nslides, ackSeen>>

\* mutant of A_input: the checksum is not tested
A_input_NoCheck(packet) ==
  IF packet.acknum \in Seqs THEN A_input_ack(packet)
  ELSE A_input_discard(packet)

A_input(packet) ==
  IF ~IsCorrupted(packet) THEN A_input_ack(packet)
  ELSE A_input_discard(packet)

\* for (i = 0; i < WINDOWSIZE; i++) ... from index i on
RECURSIVE Resend(_)
Resend(i) ==
  IF i >= WINDOWSIZE THEN <<>>
  ELSE LET idx == (base + i) % seqspace
       IN  (IF ~acked[idx] /\ InFlight(base, nextseqnum) > i
            THEN <<buffer[idx]>> ELSE <<>>) \o Resend(i + 1)

A_timerinterrupt ==
  LET resent == Resend(0)
  IN  /\ packets_resent + Len(resent) <= lim.resent
      /\ chanAB' = tolayer3All(chanAB, resent)
      /\ packets_resent' = packets_resent + Len(resent)
      /\ timer' = starttimer([timer EXCEPT !.armed = FALSE])
      /\ timer_running' = TRUE
      /\ last' = Did("A_timerinterrupt", TRUE, FALSE, NOTINUSE,
                      [i \in 1 .. Len(resent) |-> Call("tolayer3", resent[i])]
                      \o <<Call("starttimer", RTT)>>)
      /\ UNCHANGED <<buffer, acked, base, nextseqnum, window_full, new_ACKs,
                     packets_received, receiverVars, chanBA, accepted,
                     delivered, nslides, ackSeen>>

(* ---------------------------- receiver --------------------------------- *)
\* mutant of MakeAck: a cumulative acknowledgment, as in Go-Back-N
MakeAck_Cumulative(seqnum) ==
  LET ackpkt == [seqnum |-> seqnum,
                 acknum |-> (expectedseqnum + seqspace - 1) % seqspace,
                 payload |-> Fill(48), checksum |-> 0]
  IN  [ackpkt EXCEPT !.checksum = ComputeChecksum(ackpkt)]

MakeAck(seqnum) ==
  LET ackpkt == [seqnum |-> seqnum, acknum |-> seqnum,
                 payload |-> Fill(48), checksum |-> 0]
  IN  [ackpkt EXCEPT !.checksum = ComputeChecksum(ackpkt)]

\* mutant of Acceptable: SEQSPACE is not added before the remainder is
\* taken, and the remainder of a negative difference is negative
Acceptable_NoWrap(seqnum, e, rcv) ==
  (seqnum - e) < WINDOWSIZE /\ ~rcv[seqnum]

Acceptable(seqnum, e, rcv) ==
  ((seqnum + seqspace - e) % seqspace) < WINDOWSIZE /\ ~rcv[seqnum]

\* mutant of Drain: expectedseqnum is advanced before the payload is read
RECURSIVE Drain_AdvanceFirst(_, _, _, _)
Drain_AdvanceFirst(rcv, buf, e, out) ==
  IF rcv[e]
  THEN Drain_AdvanceFirst([rcv EXCEPT ![e] = FALSE], buf, (e + 1) % seqspace,
                          Append(out, buf[(e + 1) % seqspace].payload))
  ELSE [received |-> rcv, expectedseqnum |-> e, out |-> out]

\* while (received[expectedseqnum]) { tolayer5; clear; advance; count }
RECURSIVE Drain(_, _, _, _)
Drain(rcv, buf, e, out) ==
  IF rcv[e]
  THEN Drain([rcv EXCEPT ![e] = FALSE], buf, (e + 1) % seqspace,
             Append(out, buf[e].payload))
  ELSE [received |-> rcv, expectedseqnum |-> e, out |-> out]

\* B_input, the packet having passed the checksum test
B_input_ack(packet) ==
  LET seqnum == packet.seqnum
      ackpkt == MakeAck(seqnum)
      accept == Acceptable(seqnum, expectedseqnum, received)
      buf == [recv_buffer EXCEPT ![seqnum] = packet]
      d == Drain([received EXCEPT ![seqnum] = TRUE], buf, expectedseqnum, <<>>)
      out == IF accept THEN d.out ELSE <<>>
  IN  /\ chanBA' = tolayer3(chanBA, ackpkt)
      /\ recv_buffer' = IF accept THEN buf ELSE recv_buffer
      /\ received' = IF accept THEN d.received ELSE received
      /\ expectedseqnum' = IF accept THEN d.expectedseqnum ELSE expectedseqnum
      /\ packets_received' = packets_received + Len(out)
      /\ delivered' = delivered \o out
      /\ last' = Did("B_input", Intact(packet), recv_buffer[seqnum] = packet,
                      seqnum,
                      <<Call("tolayer3", ackpkt)>> \o
                      [i \in 1 .. Len(out) |-> Call("tolayer5", out[i])])
      /\ UNCHANGED <<senderVars, window_full, new_ACKs, packets_resent,
                     timer, accepted, nslides, ackSeen>>

\* B_input, the packet having failed the checksum test
B_input_discard(packet) ==
  /\ last' = Did("B_input", Intact(packet), FALSE, NOTINUSE, <<>>)
  /\ UNCHANGED <<senderVars, counterVars, receiverVars, chanBA, timer,
                 accepted, delivered, nslides, ackSeen>>

\* mutant of B_input: the checksum is not tested
B_input_NoCheck(packet) ==
  IF packet.seqnum \in Seqs THEN B_input_ack(packet)
  ELSE B_input_discard(packet)

B_input(packet) ==
  IF ~IsCorrupted(packet) THEN B_input_ack(packet)
  ELSE B_input_discard(packet)

(* ---------------------------- events ----------------------------------- *)
Lost == Did("lost", FALSE, FALSE, NOTINUSE, <<>>)

Submit ==
  /\ \E message \in {Message(Len(accepted))} : A_output(message)
  /\ UNCHANGED <<faults, runVars>>

Timeout ==
  /\ timer.armed
  /\ A_timerinterrupt
  /\ UNCHANGED <<faults, runVars>>

ArriveA ==
  /\ chanBA # <<>>
  /\ chanBA' = Tail(chanBA)
  /\ A_input(Head(chanBA))
  /\ UNCHANGED <<faults, runVars>>

ArriveACorrupted ==
  /\ chanBA # <<>>
  /\ faults < lim.faults
  /\ faults' = faults + 1
  /\ UNCHANGED runVars
  /\ chanBA' = Tail(chanBA)
  /\ \E packet \in Corruptions(Head(chanBA)) : A_input(packet)

LoseAck ==
  /\ chanBA # <<>>
  /\ faults < lim.faults
  /\ faults' = faults + 1
  /\ UNCHANGED runVars
  /\ chanBA' = Tail(chanBA)
  /\ last' = Lost
  /\ UNCHANGED <<senderVars, counterVars, receiverVars, chanAB, timer,
                 accepted, delivered, nslides, ackSeen>>

ArriveB ==
  /\ chanAB # <<>>
  /\ B_input(Head(chanAB))
  /\ chanAB' = Tail(chanAB)
  /\ UNCHANGED <<faults, runVars>>

ArriveBCorrupted ==
  /\ chanAB # <<>>
  /\ faults < lim.faults
  /\ faults' = faults + 1
  /\ UNCHANGED runVars
  /\ \E packet \in Corruptions(Head(chanAB)) : B_input(packet)
  /\ chanAB' = Tail(chanAB)

LosePkt ==
  /\ chanAB # <<>>
  /\ faults < lim.faults
  /\ faults' = faults + 1
  /\ UNCHANGED runVars
  /\ chanAB' = Tail(chanAB)
  /\ last' = Lost
  /\ UNCHANGED <<senderVars, counterVars, receiverVars, chanBA, timer,
                 accepted, delivered, nslides, ackSeen>>

\* the state after A_init and B_init, for a run with the given sequence
\* space and bounds
Fresh(space, limits) ==
  /\ seqspace = space
  /\ buffer = [s \in Seqs |-> ZeroPkt]
  /\ acked = [s \in Seqs |-> FALSE]
  /\ base = 0
  /\ nextseqnum = 0
  /\ timer_running = FALSE
  /\ window_full = 0
  /\ new_ACKs = 0
  /\ packets_resent = 0
  /\ recv_buffer = [s \in Seqs |-> ZeroPkt]
  /\ received = [s \in Seqs |-> FALSE]
  /\ expectedseqnum = 0
  /\ packets_received = 0
  /\ chanAB = <<>>
  /\ chanBA = <<>>
  /\ timer = [armed |-> FALSE, fault |-> FALSE]
  /\ faults = 0
  /\ accepted = <<>>
  /\ delivered = <<>>
  /\ nslides = 0
  /\ ackSeen = [s \in Seqs |-> FALSE]
  /\ origin = 0
  /\ lim = limits
  /\ last = Did("init", TRUE, FALSE, NOTINUSE, <<>>)

\* no packet is under test
NoProbe == [what |-> "none", built |-> ZeroPkt, got |-> ZeroPkt]

Init ==
  /\ Fresh(SEQSPACE,
           Limits(MaxMsgs, MaxChan, MaxResent, MaxWindowFull, MaxFaults))
  /\ probe = NoProbe

Next ==
  \/ Submit
  \/ Timeout
  \/ ArriveA
  \/ ArriveACorrupted
  \/ LoseAck
  \/ ArriveB
  \/ ArriveBCorrupted
  \/ LosePkt

Spec == Init /\ [][Next]_vars

\* A run of one window of messages over a channel that holds them all, so
\* that nothing is lost unless the channel loses it.
InitBurst ==
  /\ Fresh(SEQSPACE,
           Limits(WINDOWSIZE, WINDOWSIZE, MaxResent, MaxWindowFull,
                  MaxFaults))
  /\ probe = NoProbe

SpecBurst == InitBurst /\ [][Next]_vars

\* The state A and B are in after StartAt messages were submitted, delivered
\* and acknowledged one after the other with no loss: the sequence numbers
\* wrap around within MaxMsgs further messages.
InitWrap ==
  /\ seqspace = SEQSPACE
  /\ buffer = [s \in Seqs |-> IF s < StartAt THEN MakePkt(s, Message(s))
                                ELSE ZeroPkt]
  /\ acked = [s \in Seqs |-> FALSE]
  /\ base = StartAt % seqspace
  /\ nextseqnum = StartAt % seqspace
  /\ timer_running = FALSE
  /\ window_full = 0
  /\ new_ACKs = StartAt
  /\ packets_resent = 0
  /\ recv_buffer = [s \in Seqs |-> IF s < StartAt THEN MakePkt(s, Message(s))
                                     ELSE ZeroPkt]
  /\ received = [s \in Seqs |-> FALSE]
  /\ expectedseqnum = StartAt % seqspace
  /\ packets_received = StartAt
  /\ chanAB = <<>>
  /\ chanBA = <<>>
  /\ timer = [armed |-> FALSE, fault |-> FALSE]
  /\ faults = 0
  /\ accepted = [k \in 1 .. StartAt |-> Message(k - 1)]
  /\ delivered = [k \in 1 .. StartAt |-> Message(k - 1)]
  /\ nslides = StartAt
  /\ ackSeen = [s \in Seqs |-> s < StartAt]
  /\ origin = StartAt
  /\ probe = NoProbe
  /\ lim = Limits(MaxMsgs, MaxChan, MaxResent, MaxWindowFull, MaxFaults)
  /\ last = Did("A_input", TRUE, FALSE, StartAt - 1, <<Call("stoptimer", 0)>>)

SpecWrap == InitWrap /\ [][Next]_vars

\* The state reached when a full window 0 .. WINDOWSIZE-1 was sent, packet 0
\* was lost, the others were acknowledged, two early timeouts sent packet 0
\* again, B acknowledged both copies, and A_input has been given both acks:
\* the first slid base to WINDOWSIZE and cleared acked[0], the second set
\* acked[0] again.
InitStale ==
  /\ seqspace = SEQSPACE
  /\ buffer = [s \in Seqs |-> IF s < WINDOWSIZE THEN MakePkt(s, Message(s))
                                ELSE ZeroPkt]
  /\ acked = [s \in Seqs |-> s = 0]
  /\ base = WINDOWSIZE
  /\ nextseqnum = WINDOWSIZE
  /\ timer_running = FALSE
  /\ window_full = 0
  /\ new_ACKs = WINDOWSIZE + 1
  /\ packets_resent = 2
  /\ recv_buffer = [s \in Seqs |-> IF s < WINDOWSIZE
                                     THEN MakePkt(s, Message(s)) ELSE ZeroPkt]
  /\ received = [s \in Seqs |-> FALSE]
  /\ expectedseqnum = WINDOWSIZE
  /\ packets_received = WINDOWSIZE
  /\ chanAB = <<>>
  /\ chanBA = <<>>
  /\ timer = [armed |-> FALSE, fault |-> FALSE]
  /\ faults = 1
  /\ accepted = [k \in 1 .. WINDOWSIZE |-> Message(k - 1)]
  /\ delivered = [k \in 1 .. WINDOWSIZE |-> Message(k - 1)]
  /\ nslides = WINDOWSIZE
  /\ ackSeen = [s \in Seqs |-> s < WINDOWSIZE]
  /\ origin = WINDOWSIZE
  /\ probe = NoProbe
  /\ lim = Limits(MaxMsgs, MaxChan, 2 + MaxResent, MaxWindowFull, MaxFaults)
  /\ last = Did("A_input", TRUE, TRUE, 0, <<>>)

SpecStale == InitStale /\ [][Next]_vars

\* The state reached from InitStale when the messages up to SEQSPACE-1 were
\* submitted, delivered and acknowledged one after the other: the last ack
\* slid base over slot SEQSPACE-1 and on over slot 0, whose flag was set.
\* The channel of the run holds a whole window.
InitOver ==
  /\ seqspace = SEQSPACE
  /\ buffer = [s \in Seqs |-> MakePkt(s, Message(s))]
  /\ acked = [s \in Seqs |-> FALSE]
  /\ base = 1
  /\ nextseqnum = 0
  /\ timer_running = TRUE
  /\ window_full = 0
  /\ new_ACKs = SEQSPACE + 1
  /\ packets_resent = 2
  /\ recv_buffer = [s \in Seqs |-> MakePkt(s, Message(s))]
  /\ received = [s \in Seqs |-> FALSE]
  /\ expectedseqnum = 0
  /\ packets_received = SEQSPACE
  /\ chanAB = <<>>
  /\ chanBA = <<>>
  /\ timer = [armed |-> TRUE, fault |-> FALSE]
  /\ faults = 1
  /\ accepted = [k \in 1 .. SEQSPACE |-> Message(k - 1)]
  /\ delivered = [k \in 1 .. SEQSPACE |-> Message(k - 1)]
  /\ nslides = SEQSPACE + 1
  /\ ackSeen = [s \in Seqs |-> TRUE]
  /\ origin = SEQSPACE
  /\ probe = NoProbe
  /\ lim = Limits(MaxOverMsgs, WINDOWSIZE, 2 + MaxOverResent,
                   MaxWindowFull, MaxFaults)
  /\ last = Did("A_input", TRUE, FALSE, SEQSPACE - 1,
                 <<Call("stoptimer", 0), Call("starttimer", RTT)>>)

SpecOver == InitOver /\ [][Next]_vars

(* ---------------------------- a crafted loss pattern ------------------- *)
\* The same handlers built with a sequence space from WINDOWSIZE + 1 up to
\* SEQSPACE, driven through one loss pattern: a window of WINDOWSIZE
\* messages is sent one by one and delivered, the ack of packet 0 is lost and
\* the others arrive, the timer goes off (packet 0 is sent again), and the
\* exchange goes on without loss until as many messages as there are
\* sequence numbers were accepted.
InitCrafted ==
  /\ \E space \in (WINDOWSIZE + 1) .. SEQSPACE :
       Fresh(space, Limits(space, MaxChan, 1, 0, 1))
  /\ probe = NoProbe

Quiet == chanAB = <<>> /\ chanBA = <<>>

LoseThisAck == chanBA # <<>> /\ Head(chanBA).acknum = 0 /\ faults = 0

CraftedSubmit ==
  /\ Quiet
  /\ Len(accepted) < WINDOWSIZE \/ packets_resent > 0
  /\ Submit

CraftedTimeout ==
  /\ Quiet
  /\ Len(accepted) = WINDOWSIZE
  /\ packets_resent = 0
  /\ Timeout

CraftedLoseAck == LoseThisAck /\ LoseAck

CraftedArriveA == ~LoseThisAck /\ ArriveA

CraftedArriveB == ArriveB

NextCrafted ==
  \/ CraftedSubmit
  \/ CraftedTimeout
  \/ CraftedLoseAck
  \/ CraftedArriveA
  \/ CraftedArriveB

SpecCrafted == InitCrafted /\ [][NextCrafted]_vars

(* ---------------------------- the checksum alone ----------------------- *)
\* a packet whose checksum field is set as A_output and B_input set it
Sealed(seq, ack, payload) ==
  LET packet == [seqnum |-> seq, acknum |-> ack, payload |-> payload,
                 checksum |-> 0]
  IN  [packet EXCEPT !.checksum = ComputeChecksum(packet)]

\* header values and payload bytes tried: the values the handlers use, the
\* values the channel writes, and the ends of the range of an int
ProbeInts == {NOTINUSE, 0, 1, SEQSPACE - 1, 999999, INT_MAX, INT_MIN}
ProbeBytes == {0, 48, 97, 122, 127}
ProbeAt == 0 .. (PAYLOADLEN - 1)

InitChecksum ==
  /\ Fresh(SEQSPACE, Limits(0, 0, 0, 0, 0))
  /\ \E seq \in ProbeInts, ack \in ProbeInts, c \in ProbeBytes :
       probe = [what |-> "built", built |-> Sealed(seq, ack, Fill(c)),
                got |-> Sealed(seq, ack, Fill(c))]

Idle ==
  UNCHANGED <<senderVars, counterVars, receiverVars, envVars, faults,
              ghostVars, origin, seqspace, lim>>

\* the packet reaches IsCorrupted with one field changed, the checksum field
\* as it was built
ChangeSeqnum ==
  /\ probe.what = "built"
  /\ \E v \in ProbeInts \ {probe.built.seqnum} :
       probe' = [probe EXCEPT !.what = "seqnum", !.got.seqnum = v]
  /\ Idle

ChangeAcknum ==
  /\ probe.what = "built"
  /\ \E v \in ProbeInts \ {probe.built.acknum} :
       probe' = [probe EXCEPT !.what = "acknum", !.got.acknum = v]
  /\ Idle

ChangeByte ==
  /\ probe.what = "built"
  /\ \E i \in ProbeAt, v \in ProbeBytes \ {probe.built.payload.fill} :
       probe' = [probe EXCEPT !.what = "byte",
                              !.got.payload = [fill |-> @.fill, at |-> i,
                                               byte |-> v]]
  /\ Idle

NextChecksum ==
  \/ ChangeSeqnum
  \/ ChangeAcknum
  \/ ChangeByte

SpecChecksum == InitChecksum /\ [][NextChecksum]_vars

(* ---------------------------- properties ------------------------------- *)

\* C1  In-order delivery: the payloads B has handed to layer 5 are, in every
\* reachable state, a prefix of the messages A_output accepted: original
\* order, no gap, no duplicate.
InOrderDelivery ==
  /\ Len(delivered) <= Len(accepted)
  /\ \A i \in 1 .. Len(delivered) : delivered[i] = accepted[i]

\* C1 witness: after a retransmission, one B_input call fills a gap and
\* delivers the packet and the ones buffered behind it.
InOrderDelivery_Witness ==
  /\ last.op = "B_input"
  /\ Len(ToApp(last.ev)) >= 2
  /\ packets_resent > 0

\* the in-flight count, (nextseqnum - base) mod SEQSPACE
Outstanding == (nextseqnum - base) % seqspace

\* C2  Window bound: the in-flight count (nextseqnum - base) mod SEQSPACE
\* never exceeds WINDOWSIZE, and it is the number of messages accepted less
\* the number of times base has advanced.
WindowBound ==
  /\ Outstanding <= WINDOWSIZE
  /\ Outstanding = Len(accepted) - nslides

\* C2 witness: the window is full across the wrap-around of the sequence
\* numbers, after acknowledgments and a retransmission.
WindowBound_Witness ==
  /\ Outstanding = WINDOWSIZE
  /\ nextseqnum < base
  /\ new_ACKs > origin
  /\ packets_resent > 0

\* C3  Acknowledgment idempotence, as claimed: an A_input call with an
\* uncorrupted ack whose number A_input was already given since that number
\* was last assigned leaves base, nextseqnum, acked[], the timer and new_ACKs
\* as they were.
AckIdempotent ==
  [][(last'.op = "A_input" /\ last'.ok /\ last'.again)
       => UNCHANGED <<base, nextseqnum, acked, timer, timer_running, new_ACKs>>]_vars

\* C4  Data-packet idempotence: a B_input call with an uncorrupted packet
\* that an earlier call stored in recv_buffer (whether that call only
\* buffered it or delivered it) leaves expectedseqnum, received[],
\* recv_buffer[] and the delivered sequence unchanged and delivers nothing.
DataIdempotent ==
  [][(last'.op = "B_input" /\ last'.ok /\ last'.again)
       => /\ UNCHANGED <<expectedseqnum, received, recv_buffer, delivered,
                         packets_received>>
          /\ ToApp(last'.ev) = <<>>]_vars

\* C4 witness: B_input was given again a packet it had already delivered,
\* expectedseqnum having moved past it.
DataIdempotent_Witness ==
  /\ last.op = "B_input"
  /\ last.ok
  /\ last.again
  /\ ~received[last.seq]
  /\ delivered # <<>>
  /\ recv_buffer[last.seq].payload \in {delivered[i] : i \in 1 .. Len(delivered)}

\* The in-flight sequence numbers in window order, and the packets a timeout
\* is to send again.
InWindow == [i \in 1 .. Outstanding |-> (base + i - 1) % seqspace]

Unacked == SelectSeq(InWindow, LAMBDA q : ~acked[q])

\* C5  Timeout correctness: A_timerinterrupt hands to the channel exactly
\* buffer[s] for the s in [base, nextseqnum) with acked[s] false, each once
\* and in window order, none of them acknowledged since it was assigned, and
\* then arms the timer.  (The handler leaves base, nextseqnum, acked[] and
\* buffer[] as they were, so the state after it tells what it had to send.)
TimeoutResendsUnacked ==
  last.op = "A_timerinterrupt" =>
    /\ Args(Sent(last.ev)) = [i \in 1 .. Len(Unacked) |-> buffer[Unacked[i]]]
    /\ \A i \in 1 .. Len(Unacked) : ~ackSeen[Unacked[i]]
    /\ last.ev[Len(last.ev)] = Call("starttimer", RTT)
    /\ Len(last.ev) = Len(Unacked) + 1
    /\ timer.armed
    /\ timer_running

\* C6  Every uncorrupted packet is acknowledged: a B_input call with an
\* uncorrupted packet makes exactly one tolayer3 call, before any tolayer5
\* call, with an uncorrupted ack whose seqnum and acknum are the packet's
\* seqnum.
AckEveryPacket ==
  (last.op = "B_input" /\ last.ok) =>
    /\ Len(Sent(last.ev)) = 1
    /\ last.ev[1].call = "tolayer3"
    /\ last.ev[1].arg.seqnum = last.seq
    /\ last.ev[1].arg.acknum = last.seq
    /\ Intact(last.ev[1].arg)

\* C6 witness: a packet outside the acceptance window (one already
\* delivered, sent again after a timeout) was acknowledged and not delivered.
AckEveryPacket_Witness ==
  /\ last.op = "B_input"
  /\ last.ok
  /\ (last.seq + seqspace - expectedseqnum) % seqspace >= WINDOWSIZE
  /\ Len(last.ev) = 1
  /\ last.ev[1].arg.acknum = last.seq
  /\ packets_resent > 0

\* C7  Corrupted ack at the sender: an A_input call with a packet whose
\* checksum does not match changes no sender variable, no counter and not
\* the timer, and makes no call on the emulator.
CorruptedAckIgnored ==
  [][(last'.op = "A_input" /\ ~last'.ok)
       => /\ UNCHANGED <<senderVars, counterVars, timer, chanAB>>
          /\ last'.ev = <<>>]_vars

\* C7 witness: a corrupted ack arrived while packets were in flight.
CorruptedAckIgnored_Witness ==
  /\ last.op = "A_input"
  /\ ~last.ok
  /\ base # nextseqnum
  /\ timer.armed

\* C8  Corrupted packet at the receiver: a B_input call with a packet whose
\* checksum does not match sends no ack, delivers nothing and leaves
\* expectedseqnum, received[] and recv_buffer[] unchanged.
CorruptedPacketIgnored ==
  [][(last'.op = "B_input" /\ ~last'.ok)
       => /\ UNCHANGED <<receiverVars, delivered, packets_received, chanBA>>
          /\ last'.ev = <<>>]_vars

\* C8 witness: a corrupted packet arrived while B held a buffered packet.
CorruptedPacketIgnored_Witness ==
  /\ last.op = "B_input"
  /\ ~last.ok
  /\ \E q \in Seqs : received[q]

\* C9  Window-full rejection: an A_output call with WINDOWSIZE packets in
\* flight sends nothing, stores nothing, leaves base, nextseqnum, acked[],
\* buffer[] and the timer unchanged and adds one to window_full; with fewer
\* in flight the message is accepted: stored in buffer[nextseqnum], sent,
\* and nextseqnum advanced.
WindowFullRejected ==
  [][(last'.op = "A_output")
       => /\ Outstanding = WINDOWSIZE
               => /\ last'.ev = <<>>
                  /\ UNCHANGED <<senderVars, timer, chanAB, accepted>>
                  /\ window_full' = window_full + 1
          /\ Outstanding < WINDOWSIZE
               => /\ window_full' = window_full
                  /\ nextseqnum' = (nextseqnum + 1) % seqspace
                  /\ Len(accepted') = Len(accepted) + 1
                  /\ buffer'[nextseqnum].payload = accepted'[Len(accepted')]
                  /\ buffer'[nextseqnum].seqnum = nextseqnum
                  /\ last'.ev[1] = Call("tolayer3", buffer'[nextseqnum])]_vars

\* C9 witness: a message was rejected with the window full across the
\* wrap-around of the sequence numbers.
WindowFullRejected_Witness ==
  /\ last.op = "A_output"
  /\ last.ev = <<>>
  /\ window_full = 1
  /\ Outstanding = WINDOWSIZE
  /\ nextseqnum < base

\* C10  Single timer: starttimer is never called with the timer armed nor
\* stoptimer with no timer armed, and between handlers timer_running is true
\* exactly when the timer is armed.
SingleTimer ==
  /\ ~timer.fault
  /\ timer_running = timer.armed

\* C10 witness: an ack that left packets in flight stopped the armed timer
\* and armed it again.
SingleTimer_Witness ==
  /\ last.op = "A_input"
  /\ last.ev = <<Call("stoptimer", 0), Call("starttimer", RTT)>>
  /\ timer.armed
  /\ ~timer.fault

\* C11  The timer fires only with an unacknowledged packet in flight: in
\* every reachable state with the timer armed, base # nextseqnum and some s
\* in [base, nextseqnum) has acked[s] false; and every A_timerinterrupt call
\* sends at least one packet again.  (A_timerinterrupt leaves base,
\* nextseqnum and acked[] as they were.)
TimerImpliesUnacked ==
  /\ timer.armed => /\ base # nextseqnum
                     /\ \E i \in 1 .. Outstanding : ~acked[InWindow[i]]
  /\ last.op = "A_timerinterrupt" => Sent(last.ev) # <<>>

\* C11 witness: the timer went off with an acknowledged packet in the window
\* behind an unacknowledged one, and that one alone was sent again.
TimerImpliesUnacked_Witness ==
  /\ last.op = "A_timerinterrupt"
  /\ Len(Sent(last.ev)) = 1
  /\ \E i \in 1 .. Outstanding : acked[InWindow[i]]
  /\ timer.armed

\* C12  Timer armed after every accepted send: when A_output has accepted a
\* message the timer is armed, whether the call armed it or found it armed;
\* no state with packets in flight and no armed timer is reached.
TimerArmedAfterSend ==
  /\ (last.op = "A_output" /\ last.ev # <<>>) => timer.armed
  /\ base # nextseqnum => timer.armed

\* C12 witness: A_output accepted a message with packets already in flight
\* and made no starttimer call, the timer being armed.
TimerArmedAfterSend_Witness ==
  /\ last.op = "A_output"
  /\ last.ev = <<Call("tolayer3", buffer[last.seq])>>
  /\ Outstanding >= 2
  /\ timer.armed

\* C18  Sender invariant, as claimed: acked[k] is true only for k inside
\* [base, nextseqnum) mod SEQSPACE, and acked[base] is false; a late ack of
\* a slot the window has slid past leaves no flag set outside the window.
FlagsInsideWindow ==
  /\ \A k \in Seqs : acked[k] => (k - base) % seqspace < Outstanding
  /\ ~acked[base]

\* C18 witness: the state InitStale describes is reached from A_init and
\* B_init: acked[0] is set with base = nextseqnum = WINDOWSIZE.
AtInitStale ==
  /\ buffer = [s \in Seqs |-> IF s < WINDOWSIZE THEN MakePkt(s, Message(s))
                                ELSE ZeroPkt]
  /\ acked = [s \in Seqs |-> s = 0]
  /\ base = WINDOWSIZE /\ nextseqnum = WINDOWSIZE /\ ~timer_running
  /\ window_full = 0 /\ new_ACKs = WINDOWSIZE + 1 /\ packets_resent = 2
  /\ recv_buffer = buffer
  /\ received = [s \in Seqs |-> FALSE]
  /\ expectedseqnum = WINDOWSIZE /\ packets_received = WINDOWSIZE
  /\ chanAB = <<>> /\ chanBA = <<>>
  /\ timer = [armed |-> FALSE, fault |-> FALSE]
  /\ faults = 1
  /\ Len(accepted) = WINDOWSIZE /\ delivered = accepted
  /\ nslides = WINDOWSIZE
  /\ ackSeen = [s \in Seqs |-> s < WINDOWSIZE]
  /\ last = Did("A_input", TRUE, TRUE, 0, <<>>)

\* C14  base advances only over acknowledged in-flight slots, as claimed:
\* an A_input call moves base only across sequence numbers that were in
\* [base, nextseqnum) before the call and whose ack A_input has been given
\* since they were assigned, and base has never advanced more often than
\* A_output has accepted messages.
SlideOverAcked ==
  [][last'.op = "A_input"
       => /\ \A i \in 0 .. (nslides' - nslides - 1) :
               /\ i < Outstanding
               /\ ackSeen'[(base + i) % seqspace]
          /\ nslides' <= Len(accepted')]_vars

\* C14 witness: the state InitOver describes is reached from InitStale: base
\* has advanced SEQSPACE + 1 times, A_output has accepted SEQSPACE messages.
AtInitOver ==
  /\ buffer = [s \in Seqs |-> MakePkt(s, Message(s))]
  /\ acked = [s \in Seqs |-> FALSE]
  /\ base = 1 /\ nextseqnum = 0 /\ timer_running
  /\ window_full = 0 /\ new_ACKs = SEQSPACE + 1 /\ packets_resent = 2
  /\ recv_buffer = buffer
  /\ received = [s \in Seqs |-> FALSE]
  /\ expectedseqnum = 0 /\ packets_received = SEQSPACE
  /\ chanAB = <<>> /\ chanBA = <<>>
  /\ timer = [armed |-> TRUE, fault |-> FALSE]
  /\ faults = 1
  /\ Len(accepted) = SEQSPACE /\ delivered = accepted
  /\ nslides = SEQSPACE + 1
  /\ ackSeen = [s \in Seqs |-> TRUE]
  /\ last = Did("A_input", TRUE, FALSE, SEQSPACE - 1,
                 <<Call("stoptimer", 0), Call("starttimer", RTT)>>)

\* C19  Cross-entity invariant, as claimed: counted without wrap-around,
\* base advances <= payloads delivered at B <= messages accepted by A_output,
\* and delivered - base advances <= WINDOWSIZE.
SlideBehindDelivery ==
  /\ nslides <= Len(delivered)
  /\ Len(delivered) <= Len(accepted)
  /\ Len(delivered) - nslides <= WINDOWSIZE

\* C20  Receiver invariant, as claimed: received[expectedseqnum] is false,
\* received[k] is true only for k with
\* 0 < (k - expectedseqnum) mod SEQSPACE < WINDOWSIZE, and for each such k
\* recv_buffer[k] is an uncorrupted packet with seqnum k whose payload has
\* not been delivered.
ReceiverInvariant ==
  /\ ~received[expectedseqnum]
  /\ \A k \in Seqs :
       received[k] =>
         /\ (k - expectedseqnum) % seqspace \in 1 .. (WINDOWSIZE - 1)
         /\ Intact(recv_buffer[k])
         /\ recv_buffer[k].seqnum = k
         /\ \A i \in 1 .. Len(delivered) :
              delivered[i] # recv_buffer[k].payload

\* C20 witness: B holds packets buffered behind a gap.
ReceiverInvariant_Witness ==
  /\ received[(expectedseqnum + 1) % seqspace]
  /\ received[(expectedseqnum + 2) % seqspace]
  /\ delivered # <<>>

\* nothing was lost, corrupted or sent again so far (in a run of SpecBurst
\* the channel holds a whole window, so it drops nothing by itself)
LossFree == faults = 0 /\ packets_resent = 0

\* C15  Loss-free scenario: after six accepted A_output calls with no loss,
\* no corruption and no timer expiry, the timer is armed as long as fewer
\* than six acks have been processed; once no packet and no ack is left in
\* the channel, B has delivered the six payloads in order,
\* expectedseqnum = 6, base = nextseqnum = 6, every acked[] flag is false
\* and the timer is disarmed.
LossFreeSix ==
  (LossFree /\ Len(accepted) = WINDOWSIZE) =>
    /\ new_ACKs < WINDOWSIZE => timer.armed /\ timer_running
    /\ (chanAB = <<>> /\ chanBA = <<>>) =>
         /\ delivered = [k \in 1 .. WINDOWSIZE |-> Message(k - 1)]
         /\ expectedseqnum = WINDOWSIZE
         /\ base = WINDOWSIZE
         /\ nextseqnum = WINDOWSIZE
         /\ \A k \in Seqs : ~acked[k]
         /\ new_ACKs = WINDOWSIZE
         /\ ~timer.armed
         /\ ~timer_running

\* C15 witness: the six messages were exchanged without loss and the sixth
\* ack has just stopped the timer.
LossFreeSix_Witness ==
  /\ LossFree
  /\ Len(accepted) = WINDOWSIZE
  /\ chanAB = <<>>
  /\ chanBA = <<>>
  /\ last = Did("A_input", TRUE, FALSE, WINDOWSIZE - 1,
                 <<Call("stoptimer", 0)>>)
  /\ Len(delivered) = WINDOWSIZE

\* C17  The checksum detects any change of one field: a packet whose
\* checksum field is ComputeChecksum of the packet is not corrupted for
\* IsCorrupted, and it is once seqnum, acknum or one payload byte has been
\* given another value, the checksum field left as it was.
ChecksumDetects ==
  /\ probe.what = "built" => ~IsCorrupted(probe.got)
  /\ probe.what \in {"seqnum", "acknum", "byte"} =>
       /\ probe.got # probe.built
       /\ probe.got.checksum = probe.built.checksum
       /\ IsCorrupted(probe.got)

\* C17 witness: the last payload byte alone was changed, and IsCorrupted
\* tells.
ChecksumDetects_Witness ==
  /\ probe.what = "byte"
  /\ probe.got.payload.at = PAYLOADLEN - 1
  /\ probe.got.seqnum = probe.built.seqnum
  /\ probe.got.acknum = probe.built.acknum
  /\ IsCorrupted(probe.got)

\* the loss pattern of SpecCrafted has run to its end
CraftedDone ==
  /\ Quiet
  /\ Len(accepted) = seqspace
  /\ base = nextseqnum
  /\ packets_resent = 1

\* C16  Need for the doubled sequence space: when the loss pattern has run
\* with a sequence space smaller than 2 x WINDOWSIZE, B has handed to the
\* application every message and then the payload of the first message a
\* second time (the retransmitted packet 0 was accepted as new); with
\* SEQSPACE = 2 x WINDOWSIZE it has delivered the accepted messages and
\* nothing else.
SmallSpaceMisdelivers ==
  CraftedDone =>
    IF seqspace < 2 * WINDOWSIZE
    THEN delivered = accepted \o <<accepted[1]>>
    ELSE delivered = accepted

\* C16 witness: with SEQSPACE = WINDOWSIZE + 1 the pattern has run and B has
\* delivered one payload more than A_output accepted messages.
SmallSpaceMisdelivers_Witness ==
  /\ CraftedDone
  /\ seqspace = WINDOWSIZE + 1
  /\ Len(delivered) = Len(accepted) + 1
  /\ delivered[Len(delivered)] = delivered[1]

\* C13  Eventual delivery, in the form a finite run refutes: when nothing is
\* left to happen unless layer 5 submits a message (no packet or ack in the
\* channel, no timer armed), every message A_output accepted has been
\* delivered to the application at B, and base = nextseqnum.
DeliveredWhenQuiet ==
  (Quiet /\ ~timer.armed) =>
    /\ \A n \in 1 .. Len(accepted) :
         \E j \in 1 .. Len(delivered) : delivered[j] = accepted[n]
    /\ base = nextseqnum

====
